---- MODULE Spec2Model ----
(***************************************************************************)
(* The Device controller of pkg/controller/server/device/managed.go        *)
(* (Connect, Observe, Create, Update, Delete over a remote device API and  *)
(* the Kubernetes API) and the spot-market fake client.                    *)
(***************************************************************************)
EXTENDS Integers, Sequences, FiniteSets, TLC

VARIABLES d, kube, remote, created, last, pc, mock

vars == <<d, kube, remote, created, last, pc, mock>>

devVars == <<d, kube, remote, created, last, pc>>

\* ------------------------------------------------------------------ bounds
MaxDevices == 2

\* --------------------------------------------------------------- constants
userdataMapKey == "cloud-init"

Nil == "nil"

StateActive == "active"

StateProvisioning == "provisioning"

StateQueued == "queued"

StateDeprovisioning == "deprovisioning"

StateFailed == "failed"

StateInactive == "inactive"

StatePoweringOff == "powering_off"

StateReinstalling == "reinstalling"

\* a provider state the switch of Observe has no case for
StateOther == "rebooting"

States ==
  {StateActive, StateProvisioning, StateQueued, StateDeprovisioning,
   StateFailed, StateInactive, StatePoweringOff, StateReinstalling, StateOther}

Hostnames == {"h1", "h2"}

NetworkTypes == {"layer3", "hybrid"}

\* what the remote gives a new device when the request leaves it open
DefaultHostname == "h1"

DefaultNetworkType == "layer3"

DeviceIDs == 1..MaxDevices

\* the external name a fresh Device carries: a name the remote does not know
NoID == 0

\* answers of a dependency: the remote API, the Kubernetes API, the tracker
Faults == {"none", "err"}

\* ------------------------------------------------------- UserDataRef data
RefKinds == {"ConfigMap", "Secret", "Pod"}

RefKeys == {"", "custom"}

DataKeys == {userdataMapKey, "custom"}

DataValues == {"", "ud"}

NoRef == [set |-> FALSE, kind |-> "", key |-> "", optional |-> FALSE]

Refs ==
  {[set |-> TRUE, kind |-> k, key |-> y, optional |-> o] :
     k \in RefKinds, y \in RefKeys, o \in BOOLEAN}

\* the Data map of a ConfigMap or Secret
DataMaps == UNION {[K -> DataValues] : K \in SUBSET DataKeys}

EmptyData == [k \in {} |-> ""]

\* ------------------------------------------------------------ remote API
Gone == [exists |-> FALSE, hostname |-> Nil, networkType |-> Nil]

NoDevice == [ID |-> NoID, State |-> "", Hostname |-> Nil, NetworkType |-> Nil]

RemoteExists(name) == name \in DeviceIDs /\ remote[name].exists

\* e.client.Get(name, nil): the device, a not-found answer, or another error
RemoteGet(name, fault, st) ==
  IF fault = "err" THEN [ans |-> "err", device |-> NoDevice]
  ELSE IF RemoteExists(name)
       THEN [ans |-> "ok",
             device |-> [ID |-> name, State |-> st,
                         Hostname |-> remote[name].hostname,
                         NetworkType |-> remote[name].networkType]]
       ELSE [ans |-> "notfound", device |-> NoDevice]

\* e.client.Delete(name, false)
RemoteDeleteAns(name, fault) ==
  IF fault = "err" THEN "err"
  ELSE IF RemoteExists(name) THEN "ok" ELSE "notfound"

\* --------------------------------------------------- clients/device helpers
\* devicesclient.LateInitialize: unset spec fields take the device's values
LateInitialize(dev, device) ==
  [dev EXCEPT
     !.hostname = IF dev.hostname = Nil THEN device.Hostname ELSE dev.hostname,
     !.networkType = IF dev.networkType = Nil THEN device.NetworkType
                     ELSE dev.networkType]

\* devicesclient.IsUpToDate: <<upToDate, networkTypeUpToDate>>
IsUpToDate(dev, device) ==
  <<dev.hostname = Nil \/ dev.hostname = device.Hostname,
    dev.networkType = Nil \/ dev.networkType = device.NetworkType>>

\* devicesclient.GenerateObservation: the observation and whether it failed
GenOutcomes == {"ok", "errZero", "errFilled"}

GenerateObservation(device, gen) ==
  IF gen = "errZero" THEN [ID |-> NoID, State |-> "", err |-> TRUE]
  ELSE [ID |-> device.ID, State |-> device.State, err |-> gen # "ok"]

\* devicesclient.CreateFromDevice: the create request of a Device
CreateFromDevice(dev) ==
  [hostname |-> dev.hostname,
   userData |-> IF dev.userData = Nil THEN "" ELSE dev.userData]

\* ------------------------------------------------------ invocation record
Call(name, ans) == [call |-> name, ans |-> ans]

NoReq == [hostname |-> Nil, userData |-> Nil]

\* what kube.Get answered to resolveUserDataRefs, kept with a Create
NoInput == [getErr |-> FALSE, fetched |-> EmptyData]

Result(op, err, calls, exists, upToDate, req) ==
  [op |-> op, err |-> err, calls |-> calls, exists |-> exists,
   upToDate |-> upToDate, req |-> req, inp |-> NoInput]

\* an operation handed a managed resource that is not a Device: errNotDevice
Operations == {"Connect", "Observe", "Create", "Update", "Delete"}

NotDevice(op) ==
  /\ last' = Result(op, TRUE, <<>>, FALSE, FALSE, NoReq)
  /\ UNCHANGED <<d, kube, remote, created>>

\* what kube.Update(ctx, d) persists of the Device: metadata and spec
Persisted(dev) ==
  [extName |-> dev.extName, hostname |-> dev.hostname,
   networkType |-> dev.networkType]

\* an answer as the caller sees it
Answer(fault) == IF fault = "none" THEN "ok" ELSE "err"

\* ----------------------------------------------------------------- Connect
\* the calls Connect makes, each until the first failure
ConnectCalls(track, auth, newc) ==
  <<Call("Track", Answer(track))>>
  \o (IF track = "none" THEN <<Call("GetAuthInfo", Answer(auth))>> ELSE <<>>)
  \o (IF track = "none" /\ auth = "none"
      THEN <<Call("NewClient", Answer(newc))>> ELSE <<>>)

\* ConnectErr with the error of the client constructor dropped
ConnectErr_DropsClientError(track, auth, newc) ==
  track = "err" \/ auth = "err"

\* the error Connect returns (nil when errors.Wrap wraps a nil error)
ConnectErr(track, auth, newc) ==
  track = "err" \/ auth = "err" \/ newc = "err"

Connect(track, auth, newc) ==
  /\ last' = Result("Connect", ConnectErr(track, auth, newc),
                    ConnectCalls(track, auth, newc), FALSE, FALSE, NoReq)
  /\ UNCHANGED <<d, kube, remote, created>>

\* ----------------------------------------------------------------- Observe
\* ConditionFor with the queued state sent to the provisioning case
ConditionFor_QueuedCreating(state, prev) ==
  CASE state = StateActive -> "Available"
    [] state \in {StateProvisioning, StateQueued} -> "Creating"
    [] state \in {StateDeprovisioning, StateFailed,
                  StateInactive, StatePoweringOff, StateReinstalling}
         -> "Unavailable"
    [] OTHER -> prev

\* the switch on d.Status.AtProvider.State: the Ready condition afterwards
ConditionFor(state, prev) ==
  CASE state = StateActive -> "Available"
    [] state = StateProvisioning -> "Creating"
    [] state \in {StateQueued, StateDeprovisioning, StateFailed,
                  StateInactive, StatePoweringOff, StateReinstalling}
         -> "Unavailable"
    [] OTHER -> prev

\* whether Observe writes the late-initialized Device with kube.Update
ObserveWrites(dev, get) ==
  get.ans = "ok" /\ LateInitialize(dev, get.device) # dev

\* ObserveD without the early return on a not-found answer
ObserveD_NoNotFoundReturn(dev, get, kubeAns, gen) ==
  LET late == LateInitialize(dev, get.device)
      obs == GenerateObservation(get.device, gen)
      withObs == [late EXCEPT !.atID = obs.ID, !.atState = obs.State]
  IN IF get.ans = "err" THEN dev
     ELSE IF late # dev /\ kubeAns = "err" THEN late
     ELSE IF obs.err THEN withObs
     ELSE [withObs EXCEPT !.cond = ConditionFor(obs.State, dev.cond)]

\* the Device as Observe leaves it
ObserveD(dev, get, kubeAns, gen) ==
  LET late == LateInitialize(dev, get.device)
      obs == GenerateObservation(get.device, gen)
      withObs == [late EXCEPT !.atID = obs.ID, !.atState = obs.State]
  IN IF get.ans # "ok" THEN dev
     ELSE IF late # dev /\ kubeAns = "err" THEN late
     ELSE IF obs.err THEN withObs
     ELSE [withObs EXCEPT !.cond = ConditionFor(obs.State, dev.cond)]

\* the observation and error Observe returns
ObserveResult(dev, get, kubeAns, gen) ==
  LET late == LateInitialize(dev, get.device)
      calls == <<Call("Get", get.ans)>>
               \o (IF ObserveWrites(dev, get)
                   THEN <<Call("KubeUpdate", Answer(kubeAns))>> ELSE <<>>)
      upd == IsUpToDate(late, get.device)
      err == \/ get.ans = "err"
             \/ get.ans = "ok" /\ late # dev /\ kubeAns = "err"
             \/ get.ans = "ok" /\ gen # "ok"
      exists == get.ans = "ok" /\ ~err
  IN Result("Observe", err, calls, exists, exists /\ upd[1] /\ upd[2], NoReq)

Observe(fault, st, kubeAns, gen) ==
  LET get == RemoteGet(d.extName, fault, st) IN
  /\ d' = ObserveD(d, get, kubeAns, gen)
  /\ kube' = IF ObserveWrites(d, get) /\ kubeAns = "none"
             THEN Persisted(LateInitialize(d, get.device)) ELSE kube
  /\ last' = ObserveResult(d, get, kubeAns, gen)
  /\ UNCHANGED <<remote, created>>

\* ------------------------------------------------------------------ Create
\* resolveUserDataRefs without the check that the key was found
resolveUserDataRefs_IgnoresMissingKey(ref, getErr, fetched) ==
  LET key == IF ref.key = "" THEN userdataMapKey ELSE ref.key
      data == IF getErr THEN EmptyData ELSE fetched
      userdata == IF key \in DOMAIN data THEN data[key] ELSE ""
  IN IF ref.kind \in {"ConfigMap", "Secret"} /\ ~(getErr /\ ~ref.optional)
     THEN [userdata |-> userdata, err |-> FALSE]
     ELSE [userdata |-> "", err |-> TRUE]

\* resolveUserDataRefs: the user data of the referenced object, or an error.
\* getErr: kube.Get failed, and the object stays empty; fetched: its Data
resolveUserDataRefs(ref, getErr, fetched) ==
  LET key == IF ref.key = "" THEN userdataMapKey ELSE ref.key
      data == IF getErr THEN EmptyData ELSE fetched
      ok == key \in DOMAIN data
      userdata == IF ok THEN data[key] ELSE ""
      failed == [userdata |-> "", err |-> TRUE]
  IN CASE ref.kind = "ConfigMap" ->
            IF getErr /\ ~ref.optional THEN failed
            ELSE IF ~ok /\ ~ref.optional THEN failed
            ELSE [userdata |-> userdata, err |-> FALSE]
       [] ref.kind = "Secret" ->
            IF getErr /\ ~ref.optional THEN failed
            ELSE IF ~ok /\ ~ref.optional THEN failed
            ELSE [userdata |-> userdata, err |-> FALSE]
       [] OTHER -> failed

\* the objects kube.Get can find for a reference: none is read without one
FetchedData(ref, maps) == IF ref.set THEN maps ELSE {EmptyData}

\* the kube.Get resolveUserDataRefs issues for a known kind
ResolveCalls(ref, getFault) ==
  IF ref.set /\ ref.kind \in {"ConfigMap", "Secret"}
  THEN <<Call("KubeGet", Answer(getFault))>> ELSE <<>>

\* the copy of the Device the create request is made from
CreateDev(dev, res) ==
  IF dev.userDataRef.set THEN [dev EXCEPT !.userData = res.userdata] ELSE dev

\* CreatedDevice without meta.SetExternalName
CreatedDevice_NoExternalName(dev, id) == [dev EXCEPT !.atID = id]

\* the Device after the remote Create answered with a device
CreatedDevice(dev, id) == [dev EXCEPT !.atID = id, !.extName = id]

\* the device the remote makes of a create request
RemoteCreated(req) ==
  [exists |-> TRUE,
   hostname |-> IF req.hostname = Nil THEN DefaultHostname ELSE req.hostname,
   networkType |-> DefaultNetworkType]

CreateResult(err, calls, req, getFault, fetched) ==
  [Result("Create", err, calls, FALSE, FALSE, req) EXCEPT
     !.inp = IF ~d.userDataRef.set THEN NoInput
             ELSE [getErr |-> getFault = "err",
                   fetched |-> IF getFault = "err" THEN EmptyData
                               ELSE fetched]]

Create(getFault, fetched, fault, kubeAns) ==
  LET d1 == [d EXCEPT !.cond = "Creating"]
      res == resolveUserDataRefs(d.userDataRef, getFault = "err", fetched)
      rcalls == ResolveCalls(d.userDataRef, getFault)
      req == CreateFromDevice(CreateDev(d1, res))
      id == created + 1
  IN IF d.userDataRef.set /\ res.err
     THEN /\ d' = d1
          /\ last' = CreateResult(TRUE, rcalls, NoReq, getFault, fetched)
          /\ UNCHANGED <<kube, remote, created>>
     ELSE IF fault = "err"
     THEN /\ d' = d1
          /\ last' = CreateResult(TRUE, rcalls \o <<Call("Create", "err")>>,
                                  req, getFault, fetched)
          /\ UNCHANGED <<kube, remote, created>>
     ELSE /\ created < MaxDevices
          /\ remote' = [remote EXCEPT ![id] = RemoteCreated(req)]
          /\ created' = id
          /\ d' = CreatedDevice(d1, id)
          /\ kube' = IF kubeAns = "none" THEN Persisted(d') ELSE kube
          /\ last' = CreateResult(kubeAns = "err",
                                  rcalls \o <<Call("Create", "ok"),
                                              Call("KubeUpdate",
                                                   Answer(kubeAns))>>,
                                  req, getFault, fetched)

\* ------------------------------------------------------------------ Update
\* UpdateCalls without the early return after DeviceToNetworkType
UpdateCalls_FallsThrough(dev, device, fault2) ==
  IF ~IsUpToDate(dev, device)[2] /\ dev.networkType # Nil
  THEN <<Call("DeviceToNetworkType", Answer(fault2)),
         Call("Update", Answer(fault2))>>
  ELSE <<Call("Update", Answer(fault2))>>

\* UpdateCalls that converts the network type whenever the spec names one
UpdateCalls_NetworkTypeAlways(dev, device, fault2) ==
  IF dev.networkType # Nil
  THEN <<Call("DeviceToNetworkType", Answer(fault2))>>
  ELSE <<Call("Update", Answer(fault2))>>

\* the mutating remote calls Update issues once its Get has the device:
\* the network type alone, and an early return, or the update request
UpdateCalls(dev, device, fault2) ==
  IF ~IsUpToDate(dev, device)[2] /\ dev.networkType # Nil
  THEN <<Call("DeviceToNetworkType", Answer(fault2))>>
  ELSE <<Call("Update", Answer(fault2))>>

\* what a mutating call that succeeded does to the remote device:
\* DeviceToNetworkType(name, type), Update(name, NewUpdateDeviceRequest(d))
RemoteApply(dev, rd, c) ==
  IF c.ans # "ok" THEN rd
  ELSE IF c.call = "DeviceToNetworkType"
       THEN [rd EXCEPT !.networkType = dev.networkType]
       ELSE [rd EXCEPT !.hostname = IF dev.hostname = Nil THEN rd.hostname
                                    ELSE dev.hostname]

RECURSIVE RemoteApplyAll(_, _, _)
RemoteApplyAll(dev, rd, calls) ==
  IF calls = <<>> THEN rd
  ELSE RemoteApplyAll(dev, RemoteApply(dev, rd, Head(calls)), Tail(calls))

\* the error Update returns after its mutating calls
UpdateErr(calls) == \E i \in 1..Len(calls) : calls[i].ans # "ok"

\* (Update reads nothing of the state the provider reports for the device)
Update(fault, fault2) ==
  LET get == RemoteGet(d.extName, fault, StateActive)
      calls == UpdateCalls(d, get.device, fault2)
  IN IF get.ans # "ok"
     THEN /\ last' = Result("Update", TRUE, <<Call("Get", get.ans)>>,
                            FALSE, FALSE, NoReq)
          /\ UNCHANGED <<d, kube, remote, created>>
     ELSE /\ remote' = [remote EXCEPT
                          ![d.extName] = RemoteApplyAll(d, @, calls)]
          /\ last' = Result("Update", UpdateErr(calls),
                            <<Call("Get", "ok")>> \o calls,
                            FALSE, FALSE, NoReq)
          /\ UNCHANGED <<d, kube, created>>

\* ------------------------------------------------------------------ Delete
\* DeleteErr without resource.Ignore
DeleteErr_NotFoundIsError(ans) == ans # "ok"

\* resource.Ignore(packetclient.IsNotFound, err): the error Delete returns
DeleteErr(ans) == ans = "err"

Delete(fault) ==
  LET ans == RemoteDeleteAns(d.extName, fault) IN
  /\ d' = [d EXCEPT !.cond = "Deleting"]
  /\ remote' = IF ans = "ok" THEN [remote EXCEPT ![d.extName] = Gone]
               ELSE remote
  /\ last' = Result("Delete", DeleteErr(ans), <<Call("Delete", ans)>>,
                    FALSE, FALSE, NoReq)
  /\ UNCHANGED <<kube, created>>

\* --------------------------------------------------------- host reconciler
\* the reconciler reads the Device: metadata and spec are the persisted ones
Fetch ==
  /\ d' = [d EXCEPT !.extName = kube.extName, !.hostname = kube.hostname,
                    !.networkType = kube.networkType]
  /\ UNCHANGED <<kube, remote, created, last>>

\* what the reconciler does after Observe
AfterObserve(r) ==
  IF r.err THEN "fetch"
  ELSE IF ~r.exists THEN "create"
  ELSE IF ~r.upToDate THEN "update"
  ELSE "fetch"

GenFaults(F) == IF "err" \in F THEN GenOutcomes ELSE {"ok"}

\* one step of a reconcile whose dependencies answer from F
Reconcile(F) ==
  \/ pc = "fetch" /\ Fetch /\ pc' = "connect"
  \/ /\ pc = "connect"
     /\ \E t \in F, a \in F, n \in F : Connect(t, a, n)
     /\ pc' = IF last'.err THEN "fetch" ELSE "observe"
  \/ /\ pc = "observe"
     /\ \E f \in F, st \in States, k \in F, g \in GenFaults(F) :
          Observe(f, st, k, g)
     /\ pc' = AfterObserve(last')
  \/ /\ pc = "create"
     /\ \E g \in F, m \in FetchedData(d.userDataRef, DataMaps), f \in F,
          k \in F : Create(g, m, f, k)
     /\ pc' = "fetch"
  \/ /\ pc = "update"
     /\ \E f \in F, f2 \in F : Update(f, f2)
     /\ pc' = "fetch"

\* ------------------------------------------------------------------ fake
\* the function pointers of MockClient and the parameters each is declared with
MockParams ==
  [MockCreate |-> <<"createRequest", "projectID">>,
   MockDelete |-> <<"requestID">>,
   MockGet |-> <<"requestID", "getOpt">>,
   MockGetProjectID |-> <<"id">>,
   MockGetFacilityID |-> <<"id">>]

RequestIDs == {"r1", "r2", "r3"}

CreateRequests == {"cr1", "cr2", "cr3"}

GetOptions == {Nil, "opts"}

\* what a function pointer may answer: request, response and error
MockAnswers == {"nil", "smr1", "smr2"} \X {"nil", "resp"} \X {"nil", "err"}

MockStrings == {"", "id1", "id2"}

MockIdle == [method |-> "none", args |-> <<>>, delegate |-> "none",
             passed |-> <<>>, ret |-> <<>>, out |-> <<>>]

\* one method of the fake: it calls `delegate` with `passed` and returns what
\* it answers
Delegate(method, args, delegate, passed, ret) ==
  /\ mock' = [method |-> method, args |-> args, delegate |-> delegate,
              passed |-> passed, ret |-> ret, out |-> ret]
  /\ UNCHANGED devVars

\* return c.MockCreate(createRequest)
MockClientCreate(createRequest, ret) ==
  Delegate("Create", <<createRequest>>, "MockCreate", <<createRequest>>, ret)

\* return c.MockDelete(requestID)
MockClientDelete(requestID, ret) ==
  Delegate("Delete", <<requestID>>, "MockDelete", <<requestID>>, ret)

\* return c.MockGet(requestID, options)
MockClientGet(requestID, options, ret) ==
  Delegate("Get", <<requestID, options>>, "MockGet",
           <<requestID, options>>, ret)

\* return c.MockGetFacilityID(id)
MockClientGetFacilityID(id, ret) ==
  Delegate("GetFacilityID", <<id>>, "MockGetFacilityID", <<id>>, ret)

\* return c.MockGetProjectID(id)
MockClientGetProjectID(id, ret) ==
  Delegate("GetProjectID", <<id>>, "MockGetProjectID", <<id>>, ret)

\* ---------------------------------------------------------- specifications
NoResult == Result("none", FALSE, <<>>, FALSE, FALSE, NoReq)

\* a Device as the user wrote it, with no remote device yet or with one the
\* external name refers to
InitWith(refs, existing, nts) ==
  \E h \in {Nil, "h2"}, n \in nts, r \in refs, ex \in existing :
    /\ d = [extName |-> IF ex THEN 1 ELSE NoID, hostname |-> h,
            networkType |-> n, userData |-> Nil, userDataRef |-> r,
            atID |-> NoID, atState |-> "", cond |-> "None"]
    /\ kube = [extName |-> IF ex THEN 1 ELSE NoID, hostname |-> h,
               networkType |-> n]
    /\ remote = [i \in DeviceIDs |->
                   IF ex /\ i = 1
                   THEN [exists |-> TRUE, hostname |-> DefaultHostname,
                         networkType |-> DefaultNetworkType]
                   ELSE Gone]
    /\ created = IF ex THEN 1 ELSE 0
    /\ last = NoResult
    /\ pc = "fetch"
    /\ mock = MockIdle

\* the operations of the external client as a caller may invoke them
DoNotDevice == (\E op \in Operations : NotDevice(op)) /\ UNCHANGED <<pc, mock>>

DoConnect ==
  /\ \E t \in Faults, a \in Faults, n \in Faults : Connect(t, a, n)
  /\ UNCHANGED <<pc, mock>>

\* S: the states the provider reports for a device
DoObserve(S) ==
  /\ \E f \in Faults, st \in S, k \in Faults, g \in GenOutcomes :
       Observe(f, st, k, g)
  /\ UNCHANGED <<pc, mock>>

DoCreate ==
  /\ \E g \in Faults, m \in FetchedData(d.userDataRef, DataMaps),
       f \in Faults, k \in Faults : Create(g, m, f, k)
  /\ UNCHANGED <<pc, mock>>

DoUpdate == (\E f \in Faults, f2 \in Faults : Update(f, f2)) /\ UNCHANGED <<pc, mock>>

DoDelete == (\E f \in Faults : Delete(f)) /\ UNCHANGED <<pc, mock>>

\* all five operations, called in any order
Init == InitWith({NoRef}, BOOLEAN, {Nil, "hybrid"})

Next ==
  \/ DoNotDevice
  \/ DoConnect
  \/ DoObserve({StateActive, StateOther})
  \/ DoCreate
  \/ DoUpdate
  \/ DoDelete

Spec == Init /\ [][Next]_vars

\* Observe under every state the provider reports, between Create and Delete
ObserveNext ==
  \/ DoObserve(States)
  \/ DoCreate
  \/ DoDelete

ObserveSpec == Init /\ [][ObserveNext]_vars

\* Create under every UserDataRef, between Observe and Delete (Create reads
\* nothing of the network type)
CreateInit == InitWith(Refs \cup {NoRef}, {FALSE}, {"hybrid"})

CreateNext ==
  \/ DoCreate
  \/ DoObserve({StateActive})
  \/ DoDelete

CreateSpec == CreateInit /\ [][CreateNext]_vars

\* reconciles of one Device whose dependencies may fail
ReconcileInit == InitWith({NoRef}, BOOLEAN, {Nil, "hybrid"})

ReconcileNext == Reconcile(Faults) /\ UNCHANGED mock

ReconcileSpec == ReconcileInit /\ [][ReconcileNext]_vars

\* reconciles whose dependencies all succeed; the reconciler keeps going
LiveNext == Reconcile({"none"}) /\ UNCHANGED mock

LiveSpec == ReconcileInit /\ [][LiveNext]_vars /\ WF_vars(LiveNext)

\* the spot-market fake, called by a test
MockInit == InitWith({NoRef}, {FALSE}, {Nil}) /\ d.hostname = Nil

MockNext ==
  \/ \E c \in CreateRequests, r \in MockAnswers : MockClientCreate(c, r)
  \/ \E q \in RequestIDs, r \in MockAnswers : MockClientDelete(q, <<r[2], r[3]>>)
  \/ \E q \in RequestIDs, o \in GetOptions, r \in MockAnswers :
       MockClientGet(q, o, r)
  \/ \E i \in MockStrings, r \in MockStrings : MockClientGetFacilityID(i, <<r>>)
  \/ \E i \in MockStrings, r \in MockStrings : MockClientGetProjectID(i, <<r>>)

MockSpec == MockInit /\ [][MockNext]_vars

\* =================================================================== claims
HasCall(r, name) == \E i \in 1..Len(r.calls) : r.calls[i].call = name

HasAnswer(r, name, ans) ==
  \E i \in 1..Len(r.calls) : r.calls[i] = Call(name, ans)

CountCalls(r, name) ==
  Cardinality({i \in 1..Len(r.calls) : r.calls[i].call = name})

\* the device the remote holds under the Device's external name
RemoteDevice(name) ==
  [ID |-> name, State |-> StateActive, Hostname |-> remote[name].hostname,
   NetworkType |-> remote[name].networkType]

TrackedCalls ==
  {"Track", "GetAuthInfo", "NewClient", "Get", "Create", "Update",
   "DeviceToNetworkType", "Delete", "KubeUpdate"}

\* C1: every operation returns a non-nil error when a call it depends on
\* fails, a not-found answer being no failure only for the Get of Observe and
\* the Delete of Delete; and no call is issued twice in one invocation.
C1_FailuresReturned ==
  /\ \A i \in 1..Len(last.calls) :
       LET c == last.calls[i] IN
       c.call \in TrackedCalls =>
         /\ c.ans = "err" => last.err
         /\ (c.ans = "notfound"
             /\ <<last.op, c.call>> \notin {<<"Observe", "Get">>,
                                            <<"Delete", "Delete">>})
              => last.err
  /\ \A i \in 1..Len(last.calls), j \in 1..Len(last.calls) :
       i # j => last.calls[i].call # last.calls[j].call

C1_Witness ==
  /\ last.op = "Update"
  /\ last.calls = <<Call("Get", "ok"), Call("DeviceToNetworkType", "err")>>
  /\ last.err

\* C2: an Observe whose Get answers not-found returns ResourceExists = false
\* and no error, issues no Kubernetes Update and leaves the Device as it was.
C2_NotFoundLeavesDevice ==
  [][(last'.op = "Observe" /\ HasAnswer(last', "Get", "notfound"))
       => /\ ~last'.err
          /\ ~last'.exists
          /\ last'.calls = <<Call("Get", "notfound")>>
          /\ d' = d
          /\ kube' = kube]_vars

C2_Witness ==
  /\ last.op = "Observe"
  /\ HasAnswer(last, "Get", "notfound")
  /\ d.atID # NoID
  /\ d.cond = "Deleting"

\* C3: Delete sets the Deleting condition, issues one remote Delete, returns
\* nil when it succeeds or answers not-found and an error otherwise; a Delete
\* after a successful Delete is answered not-found and returns nil.
C3_DeleteIdempotent ==
  /\ [](last.op = "Delete" /\ last.calls # <<>> =>
          /\ d.cond = "Deleting"
          /\ Len(last.calls) = 1
          /\ last.calls[1].call = "Delete"
          /\ last.err <=> last.calls[1].ans = "err")
  /\ [][(/\ HasAnswer(last, "Delete", "ok")
         /\ last'.op = "Delete"
         /\ last'.calls # <<>>
         /\ ~HasAnswer(last', "Delete", "err"))
          => HasAnswer(last', "Delete", "notfound") /\ ~last'.err]_vars

C3_Witness ==
  /\ last.op = "Delete"
  /\ HasAnswer(last, "Delete", "notfound")
  /\ ~last.err
  /\ d.extName \in DeviceIDs
  /\ d.extName <= created
  /\ ~remote[d.extName].exists

\* C5: after a successful Observe of an existing device the condition follows
\* the observed state: active Available, provisioning Creating, the six
\* listed states Unavailable; any other state leaves the condition as it was.
C5_ConditionOfState ==
  [][(last'.op = "Observe" /\ ~last'.err /\ last'.exists) =>
       /\ d'.atState = "active" => d'.cond = "Available"
       /\ d'.atState = "provisioning" => d'.cond = "Creating"
       /\ d'.atState \in {"queued", "deprovisioning", "failed", "inactive",
                          "powering_off", "reinstalling"}
            => d'.cond = "Unavailable"
       /\ d'.atState \notin {"active", "provisioning", "queued",
                             "deprovisioning", "failed", "inactive",
                             "powering_off", "reinstalling"}
            => d'.cond = d.cond]_vars

C5_Witness ==
  /\ last.op = "Observe"
  /\ ~last.err
  /\ last.exists
  /\ d.atState = StateOther
  /\ d.cond = "Deleting"

\* C6: an Update whose Get succeeds issues exactly one mutating call:
\* DeviceToNetworkType when the network type is not up to date and the spec
\* names one, the remote Update otherwise; when the Get fails it issues none.
C6_OneMutatingCall ==
  [][last'.op = "Update" /\ last'.calls # <<>> =>
       /\ last'.calls[1].call = "Get"
       /\ IF last'.calls[1].ans # "ok"
          THEN Len(last'.calls) = 1
          ELSE /\ Len(last'.calls) = 2
               /\ last'.calls[2].call =
                    IF /\ ~IsUpToDate(d, RemoteDevice(d.extName))[2]
                       /\ d.networkType # Nil
                    THEN "DeviceToNetworkType" ELSE "Update"]_vars

C6_Witness ==
  /\ last.op = "Update"
  /\ last.calls = <<Call("Get", "ok"), Call("DeviceToNetworkType", "ok")>>
  /\ d.hostname # Nil
  /\ d.hostname # remote[d.extName].hostname

\* the function pointer each method of the fake is named after
MatchingPointer ==
  [Create |-> "MockCreate", Delete |-> "MockDelete", Get |-> "MockGet",
   GetFacilityID |-> "MockGetFacilityID", GetProjectID |-> "MockGetProjectID"]

\* C4: every method of the fake calls the function pointer of its name with
\* every argument that pointer is declared with, and returns its answer.
C4_PureDelegate ==
  mock.method # "none" =>
    /\ mock.delegate = MatchingPointer[mock.method]
    /\ Len(mock.passed) = Len(MockParams[mock.delegate])
    /\ mock.out = mock.ret

\* the persisted Device asks for a hostname and a network type that the
\* device it refers to does not have
BothDiffer ==
  /\ RemoteExists(kube.extName)
  /\ kube.hostname \notin {Nil, remote[kube.extName].hostname}
  /\ kube.networkType \notin {Nil, remote[kube.extName].networkType}

OnlyHostnameDiffers ==
  /\ RemoteExists(kube.extName)
  /\ kube.hostname \notin {Nil, remote[kube.extName].hostname}
  /\ kube.networkType = remote[kube.extName].networkType

Converged == last.op = "Observe" /\ last.exists /\ last.upToDate

\* C7: when both the network type and another field differ and every call
\* succeeds, Update converts the network type first and alone, the update of
\* the other field follows on a later reconcile, and Observe comes to report
\* an existing, up-to-date device; ResourceUpToDate is the conjunction of the
\* two checks.
C7_DeferredUpdateNotLost ==
  /\ BothDiffer ~> Converged
  /\ OnlyHostnameDiffers ~> HasAnswer(last, "Update", "ok")
  /\ [][(pc = "update" /\ BothDiffer) =>
          /\ HasAnswer(last', "DeviceToNetworkType", "ok")
          /\ ~HasCall(last', "Update")
          /\ remote'[d.extName].hostname = remote[d.extName].hostname]_vars
  /\ [][pc = "observe" /\ last'.exists =>
          (last'.upToDate <=>
             /\ IsUpToDate(d', RemoteDevice(d.extName))[1]
             /\ IsUpToDate(d', RemoteDevice(d.extName))[2])]_vars

C7_Witness ==
  /\ last.op = "Update"
  /\ last.calls = <<Call("Get", "ok"), Call("DeviceToNetworkType", "ok")>>
  /\ OnlyHostnameDiffers

\* C8: Create sets the Creating condition; when the remote Create succeeds the
\* external name and Status.AtProvider.ID are the new device's ID and the
\* Device is written with one Kubernetes Update; when it fails both are left
\* as they were and no Kubernetes Update is issued.
C8_CreateRecordsIdentity ==
  [][last'.op = "Create" =>
       /\ d'.cond = "Creating"
       /\ HasAnswer(last', "Create", "ok") =>
            /\ created' = created + 1
            /\ remote'[created'].exists
            /\ d'.extName = created'
            /\ d'.atID = created'
            /\ CountCalls(last', "KubeUpdate") = 1
            /\ last'.calls[Len(last'.calls)].call = "KubeUpdate"
            /\ HasAnswer(last', "KubeUpdate", "ok") => kube'.extName = created'
       /\ HasAnswer(last', "Create", "err") =>
            /\ last'.err
            /\ d'.extName = d.extName
            /\ d'.atID = d.atID
            /\ ~HasCall(last', "KubeUpdate")
            /\ kube' = kube
            /\ remote' = remote]_vars

C8_Witness ==
  /\ last.op = "Create"
  /\ HasAnswer(last, "Create", "ok")
  /\ HasAnswer(last, "KubeUpdate", "err")
  /\ d.extName = created
  /\ d.atID = created
  /\ kube.extName # created

\* C9: with a UserDataRef, Create calls the remote Create only if the
\* reference resolved; it fails to resolve exactly when the kind is neither
\* ConfigMap nor Secret, or when it is not optional and the object cannot be
\* fetched or lacks the key ("cloud-init" for an empty key); an optional
\* reference to a missing object or key gives a request with empty user data;
\* the Device's own UserData is never modified.
C9_UserDataRefResolution ==
  [][(last'.op = "Create" /\ d.userDataRef.set) =>
       LET ref == d.userDataRef
           key == IF ref.key = "" THEN "cloud-init" ELSE ref.key
           missing == last'.inp.getErr \/ key \notin DOMAIN last'.inp.fetched
           fails == \/ ref.kind \notin {"ConfigMap", "Secret"}
                    \/ ~ref.optional /\ missing
       IN /\ fails <=> ~HasCall(last', "Create")
          /\ fails => last'.err
          /\ (~fails /\ missing) => last'.req.userData = ""
          /\ (~fails /\ ~missing) => last'.req.userData = last'.inp.fetched[key]
          /\ d'.userData = d.userData]_vars

C9_Witness ==
  /\ last.op = "Create"
  /\ d.userDataRef.set
  /\ d.userDataRef.optional
  /\ d.userDataRef.kind = "Secret"
  /\ last.inp.getErr
  /\ HasAnswer(last, "Create", "ok")
  /\ last.req.userData = ""

\* C10: over any sequence of reconciles at most one remote device is created
\* for the Device, and every remote device is the one the persisted external
\* name refers to.
C10_AtMostOneDevice ==
  /\ created <= 1
  /\ \A i \in DeviceIDs : remote[i].exists => kube.extName = i

====
